---- MODULE Spec2Model ----
(***************************************************************************)
(* py_bench: the benchmark registry and its three decorators               *)
(* (py_bench/bench_registry/decorators.py).                                *)
(*                                                                         *)
(* The decorators benchmark, param and case_setup are applied at import    *)
(* time, one after the other, each to a value: either a fresh object or    *)
(* the value the previous decorator returned (stacking).  The              *)
(* registry BenchRegistry holds a list and two dicts as class attributes.  *)
(* The module bench_regisrty.py that defines BenchRegistry is not part of  *)
(* the sources at hand; its two methods and the dicts are modelled from    *)
(* the specification (see save_param_marked_function and                   *)
(* save_case_setup_function below).                                        *)
(***************************************************************************)
EXTENDS Naturals, Sequences, FiniteSets, TLC

\* Number of decorator applications explored.
MaxApplied == 4

\* Python objects handed to the decorators.  Functions are callables;
\* NonCallables are hashable objects that are not callable (e.g. the int 42).
Functions == {"a", "b", "c"}
NonCallables == {"42"}
Values == Functions \cup NonCallables

\* Python's None: no value (nothing has been returned yet).
None == "None"

\* An object that is not any of Values: a new function object wrapping one.
Wrapper == "wrapper"

\* The positional arguments given to param( *args): the tuple `args`.
ArgTuples == {<<1, 2>>, <<2, 1>>, <<>>}

VARIABLES
    bench_marked_functions,  \* BenchRegistry.bench_marked_functions: list
    param_marked_functions,  \* parameter mapping: dict  object -> args tuple
    case_setup_functions,    \* setup mapping: dict  object -> setup routine
    ret,                     \* value returned by the latest decorator call
    raised,                  \* TRUE once a decorator call raised
    applied                  \* history: the decorator calls made so far

vars == <<bench_marked_functions, param_marked_functions,
          case_setup_functions, ret, raised, applied>>

registry == <<bench_marked_functions, param_marked_functions,
              case_setup_functions>>

\* ------------------------------------------------------------------ dicts

\* {} : the empty dict
EmptyDict == [k \in {} |-> k]

\* d[k] = v : insert or overwrite
SetItem(d, k, v) == [x \in (DOMAIN d) \cup {k} |-> IF x = k THEN v ELSE d[x]]

\* ---------------------------------------------------------------- registry

\* BenchRegistry.save_param_marked_function(f, args): associates args with
\* f's identity, overwriting any earlier association, and returns f.
save_param_marked_function(f, args) ==
    /\ param_marked_functions' = SetItem(param_marked_functions, f, args)
    /\ ret' = f
    /\ raised' = FALSE
    /\ UNCHANGED <<bench_marked_functions, case_setup_functions>>

\* BenchRegistry.save_case_setup_function(f): associates f, under its own
\* identity, with itself as the setup routine, and returns f.
save_case_setup_function(f) ==
    /\ case_setup_functions' = SetItem(case_setup_functions, f, f)
    /\ ret' = f
    /\ raised' = FALSE
    /\ UNCHANGED <<bench_marked_functions, param_marked_functions>>

\* -------------------------------------------------------------- decorators

\* Variants of the decorators, each with one slip; used to show that the
\* properties below depend on the decorators' code.

\* insert(0, f) instead of append(f)
benchmark_prepend(f) ==
    /\ bench_marked_functions' = <<f>> \o bench_marked_functions
    /\ ret' = f
    /\ raised' = FALSE
    /\ UNCHANGED <<param_marked_functions, case_setup_functions>>

\* bench_marked_functions = [f] instead of append(f)
benchmark_reset(f) ==
    /\ bench_marked_functions' = <<f>>
    /\ ret' = f
    /\ raised' = FALSE
    /\ UNCHANGED <<param_marked_functions, case_setup_functions>>

\* append only if f is not in the list yet
benchmark_dedup(f) ==
    /\ bench_marked_functions' =
           IF \E i \in DOMAIN bench_marked_functions :
                  bench_marked_functions[i] = f
           THEN bench_marked_functions
           ELSE Append(bench_marked_functions, f)
    /\ ret' = f
    /\ raised' = FALSE
    /\ UNCHANGED <<param_marked_functions, case_setup_functions>>

\* returns a new wrapper function instead of f
benchmark_wrapped(f) ==
    /\ bench_marked_functions' = Append(bench_marked_functions, f)
    /\ ret' = Wrapper
    /\ raised' = FALSE
    /\ UNCHANGED <<param_marked_functions, case_setup_functions>>

\* also records an (empty) parameter tuple for f
benchmark_with_params(f) ==
    /\ bench_marked_functions' = Append(bench_marked_functions, f)
    /\ param_marked_functions' = SetItem(param_marked_functions, f, <<>>)
    /\ ret' = f
    /\ raised' = FALSE
    /\ UNCHANGED case_setup_functions

\* raises TypeError unless callable(f)
benchmark_checked(f) ==
    IF f \in NonCallables
    THEN /\ raised' = TRUE
         /\ ret' = None
         /\ UNCHANGED registry
    ELSE /\ bench_marked_functions' = Append(bench_marked_functions, f)
         /\ ret' = f
         /\ raised' = FALSE
         /\ UNCHANGED <<param_marked_functions, case_setup_functions>>

\* dumb_wrapper without `return`: the decorated name becomes None
param_no_return(args, f) ==
    /\ param_marked_functions' = SetItem(param_marked_functions, f, args)
    /\ ret' = None
    /\ raised' = FALSE
    /\ UNCHANGED <<bench_marked_functions, case_setup_functions>>

\* passes args[:1] instead of args
param_first_arg(args, f) ==
    /\ param_marked_functions' =
           SetItem(param_marked_functions, f,
                   IF args = <<>> THEN <<>> ELSE <<Head(args)>>)
    /\ ret' = f
    /\ raised' = FALSE
    /\ UNCHANGED <<bench_marked_functions, case_setup_functions>>

\* dumb_wrapper also appends f to the benchmark list
param_registers(args, f) ==
    /\ param_marked_functions' = SetItem(param_marked_functions, f, args)
    /\ bench_marked_functions' = Append(bench_marked_functions, f)
    /\ ret' = f
    /\ raised' = FALSE
    /\ UNCHANGED case_setup_functions

\* case_setup calling the other registry method
case_setup_as_param(f) == save_param_marked_function(f, <<>>)

\* def benchmark(f):
\*     BenchRegistry.bench_marked_functions.append(f)
\*     return f
benchmark(f) ==
    /\ bench_marked_functions' = Append(bench_marked_functions, f)
    /\ ret' = f
    /\ raised' = FALSE
    /\ UNCHANGED <<param_marked_functions, case_setup_functions>>

\* def param( *args):
\*     def dumb_wrapper(f):
\*         return BenchRegistry.save_param_marked_function(f, args)
\*     return dumb_wrapper
\* param(args, f) is the call param( *args)(f).
param(args, f) == save_param_marked_function(f, args)

\* def case_setup(f):
\*     return BenchRegistry.save_case_setup_function(f)
case_setup(f) == save_case_setup_function(f)

\* ----------------------------------------------------------------- actions

\* What a decorator may be applied to: any object, or (stacked decorators)
\* the value returned by the decorator below it.
Inputs == Values \cup (IF applied = <<>> THEN {} ELSE {ret})

Call(marker, x, args) ==
    [marker |-> marker, arg |-> x, args |-> args, ret |-> ret']

CanApply == Len(applied) < MaxApplied /\ ~raised

ApplyBenchmark ==
    \E x \in Inputs :
        /\ CanApply
        /\ benchmark(x)
        /\ applied' = Append(applied, Call("benchmark", x, <<>>))

ApplyParam ==
    \E x \in Inputs : \E args \in ArgTuples :
        /\ CanApply
        /\ param(args, x)
        /\ applied' = Append(applied, Call("param", x, args))

ApplyCaseSetup ==
    \E x \in Inputs :
        /\ CanApply
        /\ case_setup(x)
        /\ applied' = Append(applied, Call("case_setup", x, <<>>))

\* State after the modules are imported and before any decorator runs.
Init ==
    /\ bench_marked_functions = <<>>
    /\ param_marked_functions = EmptyDict
    /\ case_setup_functions = EmptyDict
    /\ ret = None
    /\ raised = FALSE
    /\ applied = <<>>

Next == ApplyBenchmark \/ ApplyParam \/ ApplyCaseSetup

Spec == Init /\ [][Next]_vars

\* ----------------------------------------------------------------- helpers

Range(seq) == {seq[i] : i \in DOMAIN seq}

Count(seq, x) == Cardinality({i \in DOMAIN seq : seq[i] = x})

IsPrefix(s, t) == Len(s) <= Len(t) /\ SubSeq(t, 1, Len(s)) = s

\* Indices of the calls of one decorator, and the objects it was applied to.
Calls(marker) == {i \in DOMAIN applied : applied[i].marker = marker}

PassedTo(marker) == {applied[i].arg : i \in Calls(marker)}

\* The calls so far were all `benchmark`.
OnlyBenchmark == Calls("benchmark") = DOMAIN applied

\* The step is a call of the decorator `marker`.
IsCall(marker) ==
    /\ Len(applied') = Len(applied) + 1
    /\ applied'[Len(applied')].marker = marker

\* The three decorators were applied to f, stacked: the first to f, each
\* later one to the value returned by the one before it; param got (1, 2).
Stacked(f) ==
    /\ Len(applied) = 3
    /\ {applied[i].marker : i \in 1..3} = {"benchmark", "param", "case_setup"}
    /\ applied[1].arg = f
    /\ applied[2].arg = applied[1].ret
    /\ applied[3].arg = applied[2].ret
    /\ \A i \in 1..3 : applied[i].marker = "param" => applied[i].args = <<1, 2>>

StackedInOrder(f, m1, m2, m3) ==
    /\ Stacked(f)
    /\ <<applied[1].marker, applied[2].marker, applied[3].marker>>
           = <<m1, m2, m3>>

\* ------------------------------------------------------------------ claims

\* C1: after `benchmark` has been applied to pairwise distinct objects
\* f1..fn and nothing else has been applied, the benchmark list is exactly
\* [f1, ..., fn], in the order applied.
C1_RegistrationOrder ==
    ( /\ OnlyBenchmark
      /\ \A i, j \in DOMAIN applied :
             applied[i].arg = applied[j].arg => i = j )
    => bench_marked_functions = [i \in DOMAIN applied |-> applied[i].arg]

C1_Witness ==
    /\ OnlyBenchmark
    /\ Len(applied) = 3
    /\ Cardinality(PassedTo("benchmark")) = 3
    /\ bench_marked_functions = <<"c", "a", "b">>

\* C2: when param(a1) and later param(a2) were applied to the same object
\* x, and a2 is the latest param call for x, the parameter mapping holds
\* exactly a2 for x.
C2_LastParamWins ==
    \A i, j \in Calls("param") :
        ( /\ i < j
          /\ applied[i].arg = applied[j].arg
          /\ \A k \in Calls("param") :
                 k > j => applied[k].arg # applied[j].arg )
        => /\ applied[j].arg \in DOMAIN param_marked_functions
           /\ param_marked_functions[applied[j].arg] = applied[j].args

C2_Witness ==
    \E i, j \in Calls("param") :
        /\ i < j
        /\ applied[i].arg = applied[j].arg
        /\ applied[i].args = <<2, 1>>
        /\ applied[j].args = <<1, 2>>
        /\ \A k \in Calls("param") : k > j => applied[k].arg # applied[j].arg
        /\ param_marked_functions[applied[j].arg] = <<1, 2>>

C4_NoDeduplication ==
    \A x \in PassedTo("benchmark") :
        Count(bench_marked_functions, x)
            = Cardinality({i \in Calls("benchmark") : applied[i].arg = x})

C4_Witness ==
    \E x \in Functions :
        /\ Cardinality({i \in Calls("benchmark") : applied[i].arg = x}) = 3
        /\ Count(bench_marked_functions, x) = 3

\* C5: benchmark(f) returns f itself, so a decorator applied next to the
\* returned value files its entry under f.
C5_BenchmarkReturnsArgument ==
    \A i \in Calls("benchmark") :
        /\ applied[i].ret = applied[i].arg
        /\ ( /\ i + 1 \in DOMAIN applied
             /\ applied[i + 1].arg = applied[i].ret )
           => /\ applied[i + 1].marker = "param"
                 => applied[i].arg \in DOMAIN param_marked_functions
              /\ applied[i + 1].marker = "case_setup"
                 => applied[i].arg \in DOMAIN case_setup_functions

C5_Witness ==
    \E i \in Calls("benchmark") :
        /\ i + 1 \in Calls("param")
        /\ applied[i + 1].arg = applied[i].ret
        /\ applied[i].arg \in Functions
        /\ applied[i].arg \in DOMAIN param_marked_functions

\* C6: the setup mapping holds exactly the objects passed to case_setup,
\* each bound to itself; any other object has no setup entry.
C6_SetupSelfAssociation ==
    /\ DOMAIN case_setup_functions = PassedTo("case_setup")
    /\ \A x \in PassedTo("case_setup") : case_setup_functions[x] = x

C6_Witness ==
    /\ "a" \in PassedTo("case_setup")
    /\ case_setup_functions["a"] = "a"
    /\ "b" \in PassedTo("benchmark") \cap PassedTo("param")
    /\ "b" \notin DOMAIN case_setup_functions

\* C7: benchmark touches only the benchmark list: after benchmark on a, b,
\* c alone the list is [a, b, c] and both mappings are empty; and whatever
\* was applied, an object never passed to param has no parameter entry.
C7_BenchmarkOnlyTouchesList ==
    /\ ( OnlyBenchmark /\ Len(applied) = 3
         /\ [i \in 1..3 |-> applied[i].arg] = <<"a", "b", "c">> )
       => /\ bench_marked_functions = <<"a", "b", "c">>
          /\ \A x \in {"a", "b", "c"} :
                 /\ x \notin DOMAIN param_marked_functions
                 /\ x \notin DOMAIN case_setup_functions
    /\ DOMAIN param_marked_functions \subseteq PassedTo("param")

C7_Witness ==
    /\ OnlyBenchmark
    /\ Len(applied) = 3
    /\ [i \in 1..3 |-> applied[i].arg] = <<"a", "b", "c">>
    /\ DOMAIN param_marked_functions = {}
    /\ DOMAIN case_setup_functions = {}

\* C8: no decorator call raises, whatever it is applied to (a non-callable
\* included), and the object is stored as given.
C8_NeverRaises ==
    /\ ~raised
    /\ PassedTo("benchmark") \subseteq Range(bench_marked_functions)
    /\ PassedTo("param") \subseteq DOMAIN param_marked_functions
    /\ PassedTo("case_setup") \subseteq DOMAIN case_setup_functions

C8_Witness ==
    /\ ~raised
    /\ \E x \in NonCallables :
           /\ x \in PassedTo("benchmark")
           /\ x \in PassedTo("param")
           /\ x \in PassedTo("case_setup")
           /\ x \in Range(bench_marked_functions)
           /\ x \in DOMAIN param_marked_functions
           /\ case_setup_functions[x] = x

\* C9: param and case_setup leave the benchmark list as it is; an object
\* given parameters or a setup routine but never passed to benchmark has its
\* mapping entry and is not in the benchmark list.
C9_ListHoldsOnlyBenchmarked ==
    /\ Range(bench_marked_functions) \subseteq PassedTo("benchmark")
    /\ PassedTo("param") \subseteq DOMAIN param_marked_functions
    /\ PassedTo("case_setup") \subseteq DOMAIN case_setup_functions

C9_ParamAndSetupKeepList ==
    /\ []C9_ListHoldsOnlyBenchmarked
    /\ [][ (IsCall("param") \/ IsCall("case_setup"))
             => bench_marked_functions' = bench_marked_functions ]_vars

C9_Witness ==
    /\ "a" \in PassedTo("param") \ PassedTo("benchmark")
    /\ "b" \in PassedTo("case_setup") \ PassedTo("benchmark")
    /\ "a" \in DOMAIN param_marked_functions
    /\ "b" \in DOMAIN case_setup_functions
    /\ bench_marked_functions = <<"c">>

\* C10: the benchmark list is append-only: every step keeps the old list
\* as a prefix of the new one, and a benchmark call makes it one longer.
C10_AppendOnly ==
    [][ /\ IsPrefix(bench_marked_functions, bench_marked_functions')
        /\ IsCall("benchmark")
              => Len(bench_marked_functions')
                     = Len(bench_marked_functions) + 1 ]_vars

C10_Witness ==
    /\ Len(applied) = 4
    /\ <<applied[1].marker, applied[2].marker, applied[3].marker,
         applied[4].marker>> = <<"benchmark", "param", "benchmark", "case_setup">>
    /\ bench_marked_functions = <<"a", "b">>

====
